---- MODULE Spec2Model ----
(***************************************************************************)
(* Model of chapterup/main.py: one run of main(), from argument parsing to *)
(* process exit.  Strings that the program inspects (file names, input     *)
(* lines) are sequences of one-character strings, so that lower(), strip(),*)
(* startswith(), Path.suffix and the natural sort key are computed.        *)
(***************************************************************************)
EXTENDS Integers, Sequences, FiniteSets, TLC

VARIABLES pc, args, dir_is_dir, cfgFile, cfgReads, cfgWrites, config,
          listing, image_paths, default, consumed, confirmation,
          idx, wasFile, image_ids, netCalls, stdout, raised, exit_status,
          stdin_eof

vars == <<pc, args, dir_is_dir, cfgFile, cfgReads, cfgWrites, config,
          listing, image_paths, default, consumed, confirmation,
          idx, wasFile, image_ids, netCalls, stdout, raised, exit_status,
          stdin_eof>>

(***************************************************************************)
(* Bounds of the model.                                                    *)
(***************************************************************************)
MaxEntries == 3     \* entries returned by one iterdir()
MaxLines == 2       \* invalid lines typed before the gate stops offering more
MaxIds == 2         \* distinct identifiers the image host hands out

(***************************************************************************)
(* Optional values: Python's None and a present value.                     *)
(***************************************************************************)
None == <<>>
Some(v) == <<v>>
TheValue(o) == o[1]

(***************************************************************************)
(* Strings.                                                                *)
(***************************************************************************)
\* code-point order of the characters that occur in the model
Alphabet == <<"\t", " ", ".", "0", "1", "2", "G", "J", "N", "P", "Y",
              "a", "b", "e", "f", "g", "i", "j", "m", "n", "o", "p",
              "s", "t", "x", "y">>
Ord(c) == CHOOSE i \in 1..Len(Alphabet) : Alphabet[i] = c

Digits == <<"0", "1", "2", "3", "4", "5", "6", "7", "8", "9">>
IsDigit(c) == \E i \in 1..Len(Digits) : Digits[i] = c
DigitVal(c) == (CHOOSE i \in 1..Len(Digits) : Digits[i] = c) - 1

LowerChar(c) ==
    CASE c = "G" -> "g" [] c = "J" -> "j" [] c = "N" -> "n"
      [] c = "P" -> "p" [] c = "Y" -> "y" [] OTHER -> c
str_lower(s) == [i \in 1..Len(s) |-> LowerChar(s[i])]

IsSpace(c) == c \in {" ", "\t"}
RECURSIVE str_lstrip(_)
str_lstrip(s) ==
    IF s # <<>> /\ IsSpace(Head(s)) THEN str_lstrip(Tail(s)) ELSE s
RECURSIVE str_rstrip(_)
str_rstrip(s) ==
    IF s # <<>> /\ IsSpace(s[Len(s)])
    THEN str_rstrip(SubSeq(s, 1, Len(s) - 1)) ELSE s
str_strip(s) == str_rstrip(str_lstrip(s))

str_startswith(s, p) == Len(s) >= Len(p) /\ SubSeq(s, 1, Len(p)) = p

RECURSIVE str_less(_, _)
str_less(a, b) ==
    IF a = <<>> THEN b # <<>>
    ELSE IF b = <<>> THEN FALSE
    ELSE IF Head(a) = Head(b) THEN str_less(Tail(a), Tail(b))
    ELSE Ord(Head(a)) < Ord(Head(b))

(***************************************************************************)
(* Config store.  The file is absent, cannot be opened, holds text that is *)
(* not JSON, or holds a JSON object (a function from keys to strings).     *)
(***************************************************************************)
TokenKey == "imgur_access_token"
ConfigFields == {TokenKey}
DefaultToken == ""

Absent == [kind |-> "absent", data |-> <<>>]
Unreadable == [kind |-> "unreadable", data |-> <<>>]
Malformed == [kind |-> "malformed", data |-> <<>>]
JsonObject(d) == [kind |-> "object", data |-> d]

Config(token) == [imgur_access_token |-> token]

\* cls(**data): a keyword that is no field raises TypeError, a field that
\* is not given takes the dataclass default
from_json_file(f) ==
    IF f.kind = "unreadable" THEN [raises |-> "OSError", value |-> Config(DefaultToken)]
    ELSE IF f.kind = "malformed" THEN [raises |-> "JSONDecodeError", value |-> Config(DefaultToken)]
    ELSE IF ~(DOMAIN f.data \subseteq ConfigFields)
         THEN [raises |-> "TypeError", value |-> Config(DefaultToken)]
    ELSE [raises |-> "",
          value |-> Config(IF TokenKey \in DOMAIN f.data
                           THEN f.data[TokenKey] ELSE DefaultToken)]

\* outcome "config": a Config is returned; "exit": the error is printed and
\* sys.exit(1) is called; "raise": the exception leaves load_config
load_config(f) ==
    IF f.kind = "absent"
    THEN [outcome |-> "config", value |-> Config(DefaultToken), error |-> ""]
    ELSE LET r == from_json_file(f) IN
         IF r.raises = "" THEN [outcome |-> "config", value |-> r.value, error |-> ""]
         ELSE IF r.raises \in {"JSONDecodeError", "OSError"}
              THEN [outcome |-> "exit", value |-> r.value, error |-> r.raises]
         ELSE [outcome |-> "raise", value |-> r.value, error |-> r.raises]

\* json.dump(asdict(self), f)
to_json_file(c) == JsonObject([k \in ConfigFields |-> c.imgur_access_token])

(***************************************************************************)
(* Image discovery.                                                        *)
(***************************************************************************)
ImageSuffixes == {<<".", "j", "p", "g">>, <<".", "j", "p", "e", "g">>,
                  <<".", "p", "n", "g">>, <<".", "g", "i", "f">>}

\* Path.suffix: the text from the last dot of the name, unless that dot is
\* the first or the last character of the name
path_suffix(name) ==
    LET dots == {i \in 1..Len(name) : name[i] = "."} IN
    IF dots = {} THEN <<>>
    ELSE LET i == CHOOSE d \in dots : \A e \in dots : e <= d IN
         IF 1 < i /\ i < Len(name) THEN SubSeq(name, i, Len(name)) ELSE <<>>

\* length of the run of digits (isNum) or of other characters at the
\* head of s
RECURSIVE RunLen(_, _)
RunLen(s, isNum) ==
    IF s = <<>> \/ IsDigit(Head(s)) # isNum THEN 0
    ELSE 1 + RunLen(Tail(s), isNum)

RECURSIVE IntOf(_, _)
IntOf(s, acc) ==
    IF s = <<>> THEN acc ELSE IntOf(Tail(s), 10 * acc + DigitVal(Head(s)))

\* natsort's key: the string cut into alternating text and integer parts,
\* text first (the empty text when the string starts with a digit)
RECURSIVE NatChunks(_, _)
NatChunks(s, isNum) ==
    IF s = <<>> THEN <<>>
    ELSE LET n == RunLen(s, isNum)
             rest == SubSeq(s, n + 1, Len(s))
             part == SubSeq(s, 1, n)
         IN <<IF isNum THEN IntOf(part, 0) ELSE part>> \o NatChunks(rest, ~isNum)
natsort_key(s) == NatChunks(s, FALSE)

\* tuple comparison of two keys from position i on; odd positions hold
\* text, even positions hold integers
RECURSIVE KeyLessFrom(_, _, _)
KeyLessFrom(a, b, i) ==
    IF i > Len(a) THEN i <= Len(b)
    ELSE IF i > Len(b) THEN FALSE
    ELSE IF a[i] = b[i] THEN KeyLessFrom(a, b, i + 1)
    ELSE IF i % 2 = 1 THEN str_less(a[i], b[i]) ELSE a[i] < b[i]
NatLess(x, y) == KeyLessFrom(natsort_key(x), natsort_key(y), 1)

\* sorted() is stable: an element goes after the elements that do not
\* compare greater than it
RECURSIVE InsertSorted(_, _)
InsertSorted(sorted, x) ==
    IF sorted = <<>> THEN <<x>>
    ELSE IF NatLess(x, Head(sorted)) THEN <<x>> \o sorted
    ELSE <<Head(sorted)>> \o InsertSorted(Tail(sorted), x)
RECURSIVE natsorted(_)
natsorted(paths) ==
    IF paths = <<>> THEN <<>>
    ELSE InsertSorted(natsorted(SubSeq(paths, 1, Len(paths) - 1)), paths[Len(paths)])

\* variant: any suffix counts as an image
IsImagePath_anySuffix(path) == path_suffix(path) # <<>>

IsImagePath(path) == str_lower(path_suffix(path)) \in ImageSuffixes
get_image_paths(entries) == SelectSeq(natsorted(entries), IsImagePath)

(***************************************************************************)
(* Confirmation gate.                                                      *)
(***************************************************************************)
\* variant: the line is not stripped
Classify_nostrip(user_input, dflt) ==
    IF str_startswith(str_lower(user_input), <<"y">>) THEN "True"
    ELSE IF str_startswith(str_lower(user_input), <<"n">>) THEN "False"
    ELSE IF user_input = <<>> /\ dflt # None
         THEN (IF TheValue(dflt) THEN "True" ELSE "False")
    ELSE "invalid"

\* one pass of the loop body on a line that was read: "True" and "False"
\* are returned, "invalid" prints the notice and reads again
Classify(user_input, dflt) ==
    IF str_startswith(str_strip(str_lower(user_input)), <<"y">>) THEN "True"
    ELSE IF str_startswith(str_strip(str_lower(user_input)), <<"n">>) THEN "False"
    ELSE IF user_input = <<>> /\ dflt # None
         THEN (IF TheValue(dflt) THEN "True" ELSE "False")
    ELSE "invalid"

(***************************************************************************)
(* The environment of one run.                                             *)
(***************************************************************************)
Tokens == {"", "t1"}
StoredTokens == {"t0"}
ArgSets ==
    {[show_config_path |-> TRUE, access_token |-> None]}
    \cup {[show_config_path |-> FALSE, access_token |-> t] :
            t \in {None} \cup {Some(k) : k \in Tokens}}

CfgFiles ==
    {Absent, Unreadable, Malformed, JsonObject(<<>>)}
    \cup {JsonObject([k \in {TokenKey} |-> t]) : t \in StoredTokens}
    \cup {JsonObject([k \in {TokenKey, "extra"} |-> t]) : t \in StoredTokens}
    \cup {JsonObject([k \in {"extra"} |-> t]) : t \in StoredTokens}

FileNames == {<<"2", ".", "p", "n", "g">>,
              <<"1", "0", ".", "p", "n", "g">>,
              <<"a", ".", "J", "P", "G">>,
              <<"b", ".", "t", "x", "t">>,
              <<".", "g", "i", "f">>}

\* what iterdir() can yield: distinct entries in any order
Listings ==
    {s \in UNION {[1..n -> FileNames] : n \in 0..MaxEntries} :
        \A i, j \in 1..Len(s) : i # j => s[i] # s[j]}

Lines == {<<"y">>, <<" ", "Y", "e", "s">>, <<"n">>, <<"N", "o", " ">>,
          <<>>, <<" ">>, <<"m", "y">>}

Ids == 1..MaxIds

(***************************************************************************)
(* Process exit.                                                           *)
(***************************************************************************)
\* sys.exit(code), or main() returning (code 0), after printing msgs
Exit(code, msgs) ==
    /\ pc' = "done"
    /\ exit_status' = Some(code)
    /\ stdout' = stdout \o msgs
    /\ raised' = raised

\* an exception nobody catches: the interpreter prints the traceback to
\* stderr and the process ends with status 1
Raise(exc) ==
    /\ pc' = "done"
    /\ exit_status' = Some(1)
    /\ raised' = Some(exc)
    /\ stdout' = stdout

(***************************************************************************)
(* main()                                                                  *)
(***************************************************************************)
Init ==
    /\ pc = "start"
    /\ args \in ArgSets
    /\ dir_is_dir \in BOOLEAN
    /\ cfgFile \in CfgFiles
    /\ cfgReads = 0
    /\ cfgWrites = 0
    /\ config = None
    /\ listing = None
    /\ image_paths = <<>>
    /\ default = None
    /\ consumed = <<>>
    /\ confirmation = None
    /\ idx = 0
    /\ wasFile = <<>>
    /\ image_ids = <<>>
    /\ netCalls = <<>>
    /\ stdout = <<>>
    /\ raised = None
    /\ exit_status = None
    /\ stdin_eof = FALSE

ShowConfigPath ==
    /\ pc = "start"
    /\ args.show_config_path
    /\ Exit(0, <<"config_path">>)
    /\ UNCHANGED <<stdin_eof, args, dir_is_dir, cfgFile, cfgReads, cfgWrites, config,
                   listing, image_paths, default, consumed, confirmation,
                   idx, wasFile, image_ids, netCalls>>

LoadConfig ==
    /\ pc = "start"
    /\ ~args.show_config_path
    /\ cfgReads' = IF cfgFile.kind = "absent" THEN cfgReads ELSE cfgReads + 1
    /\ LET r == load_config(cfgFile) IN
         CASE r.outcome = "config" ->
                /\ config' = Some(r.value)
                /\ pc' = "token"
                /\ UNCHANGED <<stdout, raised, exit_status>>
           [] r.outcome = "exit" ->
                /\ Exit(1, <<"config_error">>)
                /\ UNCHANGED config
           [] OTHER ->
                /\ Raise(r.error)
                /\ UNCHANGED config
    /\ UNCHANGED <<stdin_eof, args, dir_is_dir, cfgFile, cfgWrites,
                   listing, image_paths, default, consumed, confirmation,
                   idx, wasFile, image_ids, netCalls>>

\* variant: if args.access_token is not None:
TokenGiven_notNone(t) == t # None

\* if args.access_token:
TokenGiven(t) == t # None /\ TheValue(t) # ""

\* the write either replaces the file's content or fails on open (OSError)
StoreAccessToken ==
    /\ pc = "token"
    /\ IF TokenGiven(args.access_token)
       THEN /\ config' = Some(Config(TheValue(args.access_token)))
            /\ cfgWrites' = cfgWrites + 1
            /\ \E writable \in BOOLEAN :
                 IF writable
                 THEN /\ cfgFile' = to_json_file(TheValue(config'))
                      /\ pc' = "dircheck"
                      /\ UNCHANGED <<stdout, raised, exit_status>>
                 ELSE /\ Raise("OSError")
                      /\ UNCHANGED cfgFile
       ELSE /\ pc' = "dircheck"
            /\ UNCHANGED <<config, cfgWrites, cfgFile, stdout, raised, exit_status>>
    /\ UNCHANGED <<stdin_eof, args, dir_is_dir, cfgReads,
                   listing, image_paths, default, consumed, confirmation,
                   idx, wasFile, image_ids, netCalls>>

\* variant: the check is left out
NotADirectory_ignored(isDir) == FALSE

\* if not dir_path.is_dir():
NotADirectory(isDir) == ~isDir

DirCheck ==
    /\ pc = "dircheck"
    /\ IF NotADirectory(dir_is_dir)
       THEN Exit(1, <<"not_a_directory">>)
       ELSE /\ pc' = "discover"
            /\ UNCHANGED <<stdout, raised, exit_status>>
    /\ UNCHANGED <<stdin_eof, args, dir_is_dir, cfgFile, cfgReads, cfgWrites, config,
                   listing, image_paths, default, consumed, confirmation,
                   idx, wasFile, image_ids, netCalls>>

\* image discovery, the emptiness check and the listing that is printed;
\* the call of get_confirmation("...", default=False) starts
Discover ==
    /\ pc = "discover"
    /\ \E entries \in Listings :
         /\ listing' = Some({entries[i] : i \in 1..Len(entries)})
         /\ image_paths' = get_image_paths(entries)
         /\ IF image_paths' = <<>>
            THEN /\ Exit(1, <<"no_images">>)
                 /\ UNCHANGED default
            ELSE /\ stdout' = stdout \o <<"listing">>
                 /\ default' = Some(FALSE)
                 /\ pc' = "prompt"
                 /\ UNCHANGED <<raised, exit_status>>
    /\ UNCHANGED <<stdin_eof, args, dir_is_dir, cfgFile, cfgReads, cfgWrites, config,
                   consumed, confirmation,
                   idx, wasFile, image_ids, netCalls>>

(***************************************************************************)
(* get_confirmation: one action per way a pass of the loop can end.        *)
(***************************************************************************)
GetConfirmationReturn ==
    /\ pc = "prompt"
    /\ ~stdin_eof
    /\ \E user_input \in Lines :
         /\ Classify(user_input, default) # "invalid"
         /\ consumed' = Append(consumed, user_input)
         /\ confirmation' = Some(Classify(user_input, default) = "True")
    /\ pc' = "confirmed"
    /\ UNCHANGED <<stdin_eof, args, dir_is_dir, cfgFile, cfgReads, cfgWrites, config,
                   listing, image_paths, default,
                   idx, wasFile, image_ids, netCalls, stdout, raised, exit_status>>

GetConfirmationInvalid ==
    /\ pc = "prompt"
    /\ ~stdin_eof
    /\ Len(consumed) < MaxLines
    /\ \E user_input \in Lines :
         /\ Classify(user_input, default) = "invalid"
         /\ consumed' = Append(consumed, user_input)
    /\ stdout' = Append(stdout, "invalid_input")
    /\ UNCHANGED <<stdin_eof, pc, args, dir_is_dir, cfgFile, cfgReads, cfgWrites, config,
                   listing, image_paths, default, confirmation,
                   idx, wasFile, image_ids, netCalls, raised, exit_status>>

\* variant: EOFError is caught in the loop and counted as invalid input
GetConfirmationEOF_swallowed ==
    /\ pc = "prompt"
    /\ ~stdin_eof
    /\ stdin_eof' = TRUE
    /\ stdout' = Append(stdout, "invalid_input")
    /\ UNCHANGED <<pc, args, dir_is_dir, cfgFile, cfgReads, cfgWrites, config,
                   listing, image_paths, default, consumed, confirmation,
                   idx, wasFile, image_ids, netCalls, raised, exit_status>>

\* input() on a closed stream raises EOFError; nothing catches it
GetConfirmationEOF ==
    /\ pc = "prompt"
    /\ stdin_eof' = TRUE
    /\ Raise("EOFError")
    /\ UNCHANGED <<args, dir_is_dir, cfgFile, cfgReads, cfgWrites, config,
                   listing, image_paths, default, consumed, confirmation,
                   idx, wasFile, image_ids, netCalls>>

\* variant: the answer is not looked at
Declined_never(answer) == FALSE

\* if not get_confirmation(...):
Declined(answer) == ~answer

AfterConfirmation ==
    /\ pc = "confirmed"
    /\ IF Declined(TheValue(confirmation))
       THEN /\ Exit(0, <<"aborting">>)
            /\ UNCHANGED idx
       ELSE /\ pc' = "upload"
            /\ idx' = 1
            /\ UNCHANGED <<stdout, raised, exit_status>>
    /\ UNCHANGED <<stdin_eof, args, dir_is_dir, cfgFile, cfgReads, cfgWrites, config,
                   listing, image_paths, default, consumed, confirmation,
                   wasFile, image_ids, netCalls>>

(***************************************************************************)
(* imgur_upload                                                            *)
(***************************************************************************)
ImageUploadCall(path) ==
    [op |-> "image_upload", path |-> path, ids |-> <<>>, id |-> 0,
     status |-> "pending"]
AlbumCreateCall(ids, ok) ==
    [op |-> "album_create", path |-> <<>>, ids |-> ids, id |-> 0,
     status |-> IF ok THEN "ok" ELSE "error"]

\* variant: the loop stops one path early
HasNext_offByOne(i, paths) == i < Len(paths)

\* for image_path in tqdm(image_paths):
HasNext(i, paths) == i <= Len(paths)

\* variant: image_ids.insert(0, image_id)
CollectId_prepend(ids, id) == <<id>> \o ids

\* image_ids.append(image_id)
CollectId(ids, id) == Append(ids, id)

\* the head of one iteration: is_file() is asked of the file system now,
\* and a regular file is handed to image_upload
ForEachImage ==
    /\ pc = "upload"
    /\ HasNext(idx, image_paths)
    /\ \E is_file \in BOOLEAN :
         /\ wasFile' = Append(wasFile, is_file)
         /\ IF is_file
            THEN /\ netCalls' = Append(netCalls, ImageUploadCall(image_paths[idx]))
                 /\ pc' = "uploading"
                 /\ UNCHANGED idx
            ELSE /\ idx' = idx + 1
                 /\ UNCHANGED <<netCalls, pc>>
    /\ UNCHANGED <<stdin_eof, args, dir_is_dir, cfgFile, cfgReads, cfgWrites, config,
                   listing, image_paths, default, consumed, confirmation,
                   image_ids, stdout, raised, exit_status>>

ImageUploadReturn ==
    /\ pc = "uploading"
    /\ \E id \in Ids :
         /\ netCalls' = [netCalls EXCEPT ![Len(netCalls)].status = "ok",
                                         ![Len(netCalls)].id = id]
         /\ image_ids' = CollectId(image_ids, id)
    /\ idx' = idx + 1
    /\ pc' = "upload"
    /\ UNCHANGED <<stdin_eof, args, dir_is_dir, cfgFile, cfgReads, cfgWrites, config,
                   listing, image_paths, default, consumed, confirmation,
                   wasFile, stdout, raised, exit_status>>

\* variant: the failure is caught and the loop goes on
ImageUploadFail_caught ==
    /\ pc = "uploading"
    /\ netCalls' = [netCalls EXCEPT ![Len(netCalls)].status = "error"]
    /\ idx' = idx + 1
    /\ pc' = "upload"
    /\ UNCHANGED <<stdin_eof, args, dir_is_dir, cfgFile, cfgReads, cfgWrites, config,
                   listing, image_paths, default, consumed, confirmation,
                   wasFile, image_ids, stdout, raised, exit_status>>

\* the client raises, or the response lacks response/data/id
ImageUploadFail ==
    /\ pc = "uploading"
    /\ netCalls' = [netCalls EXCEPT ![Len(netCalls)].status = "error"]
    /\ Raise("UploadError")
    /\ UNCHANGED <<stdin_eof, args, dir_is_dir, cfgFile, cfgReads, cfgWrites, config,
                   listing, image_paths, default, consumed, confirmation,
                   idx, wasFile, image_ids>>

AlbumCreate ==
    /\ pc = "upload"
    /\ ~HasNext(idx, image_paths)
    /\ \E ok \in BOOLEAN :
         /\ netCalls' = Append(netCalls, AlbumCreateCall(image_ids, ok))
         /\ IF ok THEN Exit(0, <<"album_created">>) ELSE Raise("AlbumError")
    /\ UNCHANGED <<stdin_eof, args, dir_is_dir, cfgFile, cfgReads, cfgWrites, config,
                   listing, image_paths, default, consumed, confirmation,
                   idx, wasFile, image_ids>>

Next ==
    \/ ShowConfigPath
    \/ LoadConfig
    \/ StoreAccessToken
    \/ DirCheck
    \/ Discover
    \/ GetConfirmationReturn
    \/ GetConfirmationInvalid
    \/ GetConfirmationEOF
    \/ AfterConfirmation
    \/ ForEachImage
    \/ ImageUploadReturn
    \/ ImageUploadFail
    \/ AlbumCreate

Spec == Init /\ [][Next]_vars

(***************************************************************************)
(* get_confirmation on its own, with every value of default.               *)
(***************************************************************************)
InitConfirm ==
    /\ pc = "prompt"
    /\ default \in {None, Some(TRUE), Some(FALSE)}
    /\ args = [show_config_path |-> FALSE, access_token |-> None]
    /\ dir_is_dir = TRUE
    /\ cfgFile = Absent
    /\ cfgReads = 0
    /\ cfgWrites = 0
    /\ config = None
    /\ listing = None
    /\ image_paths = <<>>
    /\ consumed = <<>>
    /\ confirmation = None
    /\ idx = 0
    /\ wasFile = <<>>
    /\ image_ids = <<>>
    /\ netCalls = <<>>
    /\ stdout = <<>>
    /\ raised = None
    /\ exit_status = None
    /\ stdin_eof = FALSE

NextConfirm ==
    \/ GetConfirmationReturn
    \/ GetConfirmationInvalid
    \/ GetConfirmationEOF

SpecConfirm == InitConfirm /\ [][NextConfirm]_vars

(***************************************************************************)
(* Vocabulary of the properties.                                           *)
(***************************************************************************)
Last(seq) == seq[Len(seq)]
CallsOf(op) == {k \in 1..Len(netCalls) : netCalls[k].op = op}
FailedUploads ==
    {k \in CallsOf("image_upload") : netCalls[k].status = "error"}
Count(seq, x) == Cardinality({i \in 1..Len(seq) : seq[i] = x})

\* the elements of seq whose flag is set, in order
RECURSIVE Flagged(_, _)
Flagged(seq, flags) ==
    IF seq = <<>> \/ flags = <<>> THEN <<>>
    ELSE (IF Head(flags) THEN <<Head(seq)>> ELSE <<>>)
         \o Flagged(Tail(seq), Tail(flags))

\* the first character of the line that is not white space is ch, in
\* either case
FirstLetterIs(line, ch) ==
    \E i \in 1..Len(line) :
        /\ line[i] \in ch
        /\ \A j \in 1..(i - 1) : line[j] \in {" ", "\t"}
SaysYes(line) == FirstLetterIs(line, {"y", "Y"})
SaysNo(line) == FirstLetterIs(line, {"n", "N"})

\* what the gate has to do with a line: "True", "False" or "invalid"
Expected(line, dflt) ==
    CASE SaysYes(line) -> "True"
      [] SaysNo(line) -> "False"
      [] line = <<>> /\ dflt = Some(TRUE) -> "True"
      [] line = <<>> /\ dflt = Some(FALSE) -> "False"
      [] OTHER -> "invalid"

\* the name ends in a dot and one of jpg, jpeg, png, gif in any case, with
\* a stem before the dot
Extensions == {<<"j", "p", "g">>, <<"j", "p", "e", "g">>,
               <<"p", "n", "g">>, <<"g", "i", "f">>}
SameLetter(c, lower) ==
    \/ c = lower
    \/ <<c, lower>> \in {<<"J", "j">>, <<"P", "p">>, <<"G", "g">>, <<"E", "e">>,
                         <<"N", "n">>, <<"I", "i">>, <<"F", "f">>}
HasImageExtension(name) ==
    \E ext \in Extensions :
        /\ Len(name) > Len(ext) + 1
        /\ name[Len(name) - Len(ext)] = "."
        /\ \A i \in 1..Len(ext) : SameLetter(name[Len(name) - Len(ext) + i], ext[i])

(***************************************************************************)
(* C1: no image_upload and no album_create happens unless get_confirmation *)
(* has returned true in this run; when the user answers no, or gives empty *)
(* input (the default being false), the run prints the abort notice, makes *)
(* no network call and exits with code 0.                                  *)
(***************************************************************************)
C1_ConfirmationGate ==
    /\ netCalls # <<>> =>
          /\ confirmation = Some(TRUE)
          /\ consumed # <<>> /\ SaysYes(Last(consumed))
    /\ (pc = "done" /\ consumed # <<>>
            /\ (SaysNo(Last(consumed)) \/ Last(consumed) = <<>>)) =>
          /\ stdout # <<>> /\ Last(stdout) = "aborting"
          /\ netCalls = <<>>
          /\ exit_status = Some(0)

C1_Witness ==
    /\ pc = "done"
    /\ Len(consumed) = 2
    /\ Last(consumed) = <<>>
    /\ exit_status = Some(0)
    /\ netCalls = <<>>

(***************************************************************************)
(* C2: the identifier list passed to album_create is exactly the           *)
(* identifiers returned by image_upload for the discovered paths that were *)
(* regular files at upload time, one per such path, in the order of the    *)
(* natural-sorted discovery sequence.                                      *)
(***************************************************************************)
C2_AlbumOrder ==
    \A k \in CallsOf("album_create") :
        /\ \A i \in 1..(k - 1) :
              netCalls[i].op = "image_upload" /\ netCalls[i].status = "ok"
        /\ netCalls[k].ids = [i \in 1..(k - 1) |-> netCalls[i].id]
        /\ [i \in 1..(k - 1) |-> netCalls[i].path] = Flagged(image_paths, wasFile)
        /\ Len(wasFile) = Len(image_paths)
        /\ \A i, j \in 1..Len(image_paths) :
              i < j => ~NatLess(image_paths[j], image_paths[i])

C2_Witness ==
    /\ pc = "done"
    /\ \E k \in CallsOf("album_create") :
          /\ Len(netCalls[k].ids) = 2
          /\ netCalls[k].ids[1] # netCalls[k].ids[2]
    /\ wasFile = <<TRUE, FALSE, TRUE>>

(***************************************************************************)
(* C3: a failing image_upload is not caught or retried: it is the last     *)
(* network call of the run, album_create is never called, the images       *)
(* uploaded before it stay uploaded, and the process ends with a non-zero  *)
(* status.                                                                 *)
(***************************************************************************)
C3_UploadFailure ==
    \A k \in FailedUploads :
        /\ k = Len(netCalls)
        /\ pc = "done"
        /\ exit_status # None /\ TheValue(exit_status) # 0
        /\ CallsOf("album_create") = {}
        /\ \A i \in 1..(k - 1) :
              netCalls[i].op = "image_upload" /\ netCalls[i].status = "ok"
        /\ image_ids = [i \in 1..(k - 1) |-> netCalls[i].id]

C3_Witness ==
    /\ FailedUploads # {}
    /\ Len(netCalls) = 2
    /\ idx < Len(image_paths)

(***************************************************************************)
(* C4: in a confirmed run in which no upload fails, album_create is called *)
(* exactly once, after every discovered path has been uploaded or skipped, *)
(* with at most one upload in flight at any time; when every entry is      *)
(* skipped as a non-file the album is created from the empty list.         *)
(***************************************************************************)
C4_AlbumOnce ==
    /\ Cardinality({k \in 1..Len(netCalls) : netCalls[k].status = "pending"}) <= 1
    /\ \A k \in CallsOf("album_create") :
          /\ k = Len(netCalls)
          /\ CallsOf("album_create") = {k}
          /\ Len(wasFile) = Len(image_paths)
          /\ Count(wasFile, TRUE) = k - 1
          /\ \A i \in 1..(k - 1) : netCalls[i].status = "ok"
          /\ Count(wasFile, TRUE) = 0 => netCalls[k].ids = <<>>
    /\ (pc = "done" /\ confirmation = Some(TRUE) /\ FailedUploads = {}) =>
          Cardinality(CallsOf("album_create")) = 1

C4_Witness ==
    /\ pc = "done"
    /\ wasFile = <<FALSE, FALSE>>
    /\ Len(netCalls) = 1
    /\ netCalls[1].op = "album_create" /\ netCalls[1].ids = <<>>

(***************************************************************************)
(* C5: when the directory is empty or holds no entry with an image         *)
(* extension, main() prints the no-images error and exits with code 1,     *)
(* without showing the confirmation prompt and without a network call.     *)
(***************************************************************************)
C5_NoImages ==
    (listing # None /\ \A e \in TheValue(listing) : ~HasImageExtension(e)) =>
        /\ pc = "done"
        /\ exit_status = Some(1)
        /\ stdout # <<>> /\ Last(stdout) = "no_images"
        /\ Count(stdout, "listing") = 0
        /\ default = None /\ consumed = <<>> /\ confirmation = None
        /\ netCalls = <<>>

C5_Witness ==
    /\ listing # None
    /\ Cardinality(TheValue(listing)) = 2
    /\ \A e \in TheValue(listing) : ~HasImageExtension(e)
    /\ exit_status = Some(1)

(***************************************************************************)
(* C6: when dir_path does not denote an existing directory, main() exits   *)
(* with code 1 before it lists the directory, before any confirmation      *)
(* prompt and before any network call.                                     *)
(***************************************************************************)
C6_NotADirectory ==
    (~args.show_config_path /\ ~dir_is_dir
        /\ pc \notin {"start", "token", "dircheck"}) =>
        /\ pc = "done"
        /\ exit_status = Some(1)
        /\ listing = None /\ image_paths = <<>>
        /\ default = None /\ consumed = <<>> /\ confirmation = None
        /\ netCalls = <<>>

C6_Witness ==
    /\ ~dir_is_dir
    /\ stdout = <<"not_a_directory">>
    /\ cfgWrites = 1
    /\ exit_status = Some(1)

(***************************************************************************)
(* C7: get_confirmation returns the classification of the first valid line *)
(* and consumes nothing after it: a line whose first letter after white    *)
(* space is y or Y gives true, n or N gives false, the empty line gives    *)
(* the default when one is set; every other line prints the invalid-input  *)
(* notice and is followed by another read.                                 *)
(***************************************************************************)
C7_Classification ==
    /\ \A i \in 1..(Len(consumed) - 1) : Expected(consumed[i], default) = "invalid"
    /\ pc = "confirmed" =>
          /\ consumed # <<>>
          /\ Expected(Last(consumed), default) # "invalid"
          /\ confirmation = Some(Expected(Last(consumed), default) = "True")
          /\ Count(stdout, "invalid_input") = Len(consumed) - 1
    /\ pc # "confirmed" =>
          /\ confirmation = None
          /\ \A i \in 1..Len(consumed) : Expected(consumed[i], default) = "invalid"
          /\ Count(stdout, "invalid_input") = Len(consumed)

C7_Witness ==
    /\ pc = "confirmed"
    /\ default = None
    /\ consumed = << <<>>, <<" ", "Y", "e", "s">> >>
    /\ confirmation = Some(TRUE)

(***************************************************************************)
(* C8: on end of input the gate does not prompt again: the error reaches   *)
(* the caller, the run ends with a non-zero status and without a network   *)
(* call; while the stream is open the gate keeps prompting, whatever the   *)
(* number of invalid lines, until a valid line arrives.                    *)
(***************************************************************************)
C8_EndOfInput ==
    /\ stdin_eof =>
          /\ pc = "done"
          /\ raised = Some("EOFError")
          /\ exit_status # None /\ TheValue(exit_status) # 0
          /\ confirmation = None
          /\ netCalls = <<>>
    /\ (default # None /\ ~stdin_eof /\ confirmation = None) =>
          /\ pc = "prompt"
          /\ exit_status = None
          /\ \A i \in 1..Len(consumed) : Expected(consumed[i], default) = "invalid"

C8_Witness ==
    /\ stdin_eof
    /\ Len(consumed) = MaxLines
    /\ exit_status = Some(1)

(***************************************************************************)
(* C9 as stated: the config file is read at most once and written at most  *)
(* once, and it is written if and only if an access token is supplied on   *)
(* the command line.                                                       *)
(***************************************************************************)
C9_WrittenIffSupplied ==
    /\ cfgReads <= 1
    /\ cfgWrites <= 1
    /\ pc = "done" => (cfgWrites = 1 <=> args.access_token # None)

(***************************************************************************)
(* C9 as amended: the config file is read at most once and to_json_file is *)
(* called at most once; it is called if and only if load_config returned a *)
(* Config and a non-empty access token is supplied on the command line;    *)
(* the call happens in the step that sets the token in memory, before the  *)
(* directory check, discovery, prompt and upload; a write that succeeds    *)
(* stores exactly the supplied token and nothing else ever changes the     *)
(* file, so a run without a non-empty token, a run whose config load       *)
(* fails and a --show-config-path run leave the file unchanged.            *)
(***************************************************************************)
NonEmptyTokenSupplied == args.access_token \notin {None, Some("")}

C9_ConfigAccess ==
    /\ [](/\ cfgReads <= 1
          /\ cfgWrites <= 1
          /\ args.show_config_path => (cfgReads = 0 /\ cfgWrites = 0)
          /\ pc \notin {"start", "token"} =>
                (cfgWrites = 1 <=> (NonEmptyTokenSupplied /\ config # None)))
    /\ [][/\ cfgWrites' # cfgWrites =>
                /\ pc = "token"
                /\ listing = None /\ consumed = <<>> /\ netCalls = <<>>
                /\ config' = Some([imgur_access_token |-> TheValue(args.access_token)])
          /\ cfgFile' # cfgFile =>
                /\ cfgWrites' = cfgWrites + 1
                /\ cfgFile'.kind = "object"
                /\ cfgFile'.data = [k \in {"imgur_access_token"} |->
                                        TheValue(args.access_token)]
          /\ (config' # config /\ pc # "start") => cfgWrites' = cfgWrites + 1
         ]_vars

C9_Witness ==
    /\ pc = "done"
    /\ exit_status = Some(0)
    /\ cfgReads = 1
    /\ cfgWrites = 1
    /\ cfgFile.kind = "object"
    /\ cfgFile.data = [k \in {"imgur_access_token"} |-> "t1"]
    /\ netCalls # <<>>

(***************************************************************************)
(* C10: load_config returns a Config only for an absent file or for an     *)
(* object with exactly the recognized key; an object with another key, or  *)
(* without the imgur_access_token key, yields no Config.                   *)
(***************************************************************************)
C10_StrictConstruction ==
    pc = "token" =>
        \/ cfgFile.kind = "absent"
        \/ cfgFile.kind = "object" /\ DOMAIN cfgFile.data = {"imgur_access_token"}

====
